---------------------------- MODULE Spec2Model ----------------------------
(***************************************************************************)
(* Donation-event endpoint of roundup-server.                              *)
(*                                                                         *)
(* Two deployments of the service exist in the repository:                 *)
(*   "limiter" : src/server.js          (rate limiter, no shared secret)   *)
(*   "secret"  : src/unnamed/part_000   (shared secret, no rate limiter)   *)
(* The model runs one of them (chosen in Init) and follows POST            *)
(* /events/donation through its synchronous segment (up to the awaited     *)
(* insert) and its continuation (after the insert settles).                *)
(*                                                                         *)
(* JavaScript values are records [t, n, s]: t is the kind ("undefined",    *)
(* "null", "number", "nan", "string"), n the numeric value, s the string   *)
(* as a sequence of one-character strings.  Numbers are integers.          *)
(***************************************************************************)
EXTENDS Integers, Sequences, FiniteSets, TLC

VARIABLES
    deployment,   \* which of the two server files is running
    now,          \* Date.now() of the host, in ms
    rateMap,      \* server.js:26  key -> [start, count]
    pending,      \* handlers suspended at `await supabase...insert(...)`, oldest first
    wire,         \* the exchange (request, response) just completed, until delivered
    windows,      \* history: key -> [start, n, allowed], the checks of the key's window
    lastCheck,    \* history: the call of checkRateLimit made in the step just taken, if any
    watch,        \* history: the allowed checks of one key in one interval
    tally         \* history: key -> [bad, failed, served], the answers given to the key

vars == <<deployment, now, rateMap, pending, wire, windows, lastCheck, watch, tally>>

-----------------------------------------------------------------------------
(* Program constants *)

RATE_WINDOW_MS == 60000
RATE_MAX == 60
MAX_INSTALL_ID_LEN == 200
MAX_HOST_LEN == 300
MAX_CHARITY_LEN == 200
MAX_AMOUNT == 1000

(* Bounds of the model *)

MaxCount == 62         \* checks the install that sends bursts makes while its entry lives
MaxBurst == 1          \* the same, for the keys that send no bursts
MaxInFlight == 2       \* handlers suspended at the insert at one time
MaxRepeat == 3         \* checks one install makes in a window while other keys are checked

-----------------------------------------------------------------------------
(* JavaScript values *)

Undefined == [t |-> "undefined", n |-> 0, s |-> <<>>]
Null == [t |-> "null", n |-> 0, s |-> <<>>]
NaN == [t |-> "nan", n |-> 0, s |-> <<>>]
Num(i) == [t |-> "number", n |-> i, s |-> <<>>]
Str(chars) == [t |-> "string", n |-> 0, s |-> chars]

\* typeof v
TypeOf(v) ==
    CASE v.t = "nan" -> "number"
      [] v.t = "null" -> "object"
      [] OTHER -> v.t

\* !v
Falsy(v) ==
    \/ v.t \in {"undefined", "null", "nan"}
    \/ v.t = "number" /\ v.n = 0
    \/ v.t = "string" /\ v.s = <<>>

Digit == {"0", "1", "2", "3", "4", "5", "6", "7", "8", "9"}

DigitVal(c) ==
    CASE c = "0" -> 0 [] c = "1" -> 1 [] c = "2" -> 2 [] c = "3" -> 3
      [] c = "4" -> 4 [] c = "5" -> 5 [] c = "6" -> 6 [] c = "7" -> 7
      [] c = "8" -> 8 [] c = "9" -> 9

DigitChar(d) ==
    CASE d = 0 -> "0" [] d = 1 -> "1" [] d = 2 -> "2" [] d = 3 -> "3"
      [] d = 4 -> "4" [] d = 5 -> "5" [] d = 6 -> "6" [] d = 7 -> "7"
      [] d = 8 -> "8" [] d = 9 -> "9"

\* /^\d+$/.test(chars)
AllDigits(chars) == chars # <<>> /\ \A i \in 1..Len(chars) : chars[i] \in Digit

RECURSIVE DecimalValue(_)
DecimalValue(chars) ==
    IF chars = <<>> THEN 0
    ELSE 10 * DecimalValue(SubSeq(chars, 1, Len(chars) - 1)) + DigitVal(chars[Len(chars)])

\* Number(v): undefined -> NaN, null -> 0, "" -> 0, digits -> their value,
\* "-" digits -> the negative value, any other string -> NaN.
ToNumber(v) ==
    CASE v.t = "undefined" -> NaN
      [] v.t = "null" -> Num(0)
      [] v.t = "number" -> v
      [] v.t = "nan" -> NaN
      [] v.t = "string" ->
            IF v.s = <<>> THEN Num(0)
            ELSE IF AllDigits(v.s) THEN Num(DecimalValue(v.s))
            ELSE IF v.s[1] = "-" /\ AllDigits(Tail(v.s)) THEN Num(0 - DecimalValue(Tail(v.s)))
            ELSE NaN

\* Number.isFinite(v)
IsFinite(v) == v.t = "number"


-----------------------------------------------------------------------------
(* Dates.  A Date is its time value: Num(ms) or NaN (Invalid Date).        *)
(* Time values of the model lie within 1970-01-01 (0 <= ms < 86400000);    *)
(* toISOString and Date.parse are modelled on that day.                    *)

Pad2(i) == <<DigitChar(i \div 10), DigitChar(i % 10)>>
Pad3(i) == <<DigitChar(i \div 100), DigitChar((i \div 10) % 10), DigitChar(i % 10)>>

IsoDatePrefix == <<"1", "9", "7", "0", "-", "0", "1", "-", "0", "1", "T">>

\* new Date(ms).toISOString(), "1970-01-01THH:MM:SS.mmmZ"
ToISOString(ms) ==
    IsoDatePrefix
        \o Pad2(ms \div 3600000) \o <<":">>
        \o Pad2((ms \div 60000) % 60) \o <<":">>
        \o Pad2((ms \div 1000) % 60) \o <<".">>
        \o Pad3(ms % 1000) \o <<"Z">>

\* new Date(v) for a number v
DateOfNumber(v) == IF v.t = "number" THEN v ELSE NaN

\* new Date(chars) for a string: Date.parse of the ISO form, NaN for any other text
DateOfString(chars) ==
    IF /\ Len(chars) = 24
       /\ SubSeq(chars, 1, 11) = IsoDatePrefix
       /\ AllDigits(SubSeq(chars, 12, 13)) /\ chars[14] = ":"
       /\ AllDigits(SubSeq(chars, 15, 16)) /\ chars[17] = ":"
       /\ AllDigits(SubSeq(chars, 18, 19)) /\ chars[20] = "."
       /\ AllDigits(SubSeq(chars, 21, 23)) /\ chars[24] = "Z"
       /\ DecimalValue(SubSeq(chars, 12, 13)) < 24
       /\ DecimalValue(SubSeq(chars, 15, 16)) < 60
       /\ DecimalValue(SubSeq(chars, 18, 19)) < 60
    THEN Num(DecimalValue(SubSeq(chars, 12, 13)) * 3600000
             + DecimalValue(SubSeq(chars, 15, 16)) * 60000
             + DecimalValue(SubSeq(chars, 18, 19)) * 1000
             + DecimalValue(SubSeq(chars, 21, 23)))
    ELSE NaN

-----------------------------------------------------------------------------
(* Rate limiter (server.js) *)

KeyPrefixId == <<"i", "d", ":">>
KeyPrefixIp == <<"i", "p", ":">>

\* Variant: any truthy installId taken as the key
rateLimitKey_Truthy(req) ==
    LET installId == req.body.installId IN
    IF ~Falsy(installId)
    THEN KeyPrefixId \o (IF installId.t = "string" THEN installId.s ELSE <<DigitChar(installId.n)>>)
    ELSE KeyPrefixIp \o req.ip

rateLimitKey(req) ==
    LET installId == req.body.installId IN
    IF TypeOf(installId) = "string" /\ Len(installId.s) > 0
    THEN KeyPrefixId \o installId.s
    ELSE KeyPrefixIp \o req.ip

\* Variants of the tests of checkRateLimit with an off-by-one comparison
WindowElapsed_Inclusive(entry, t) == t - entry.start >= RATE_WINDOW_MS
OverLimit_AtMax(count) == count >= RATE_MAX

\* Variant: the limit tested with equality
OverLimit_OnlyNext(count) == count = RATE_MAX + 1

\* The window test of checkRateLimit: true when the entry is to be replaced.
WindowElapsed(entry, t) == t - entry.start > RATE_WINDOW_MS

\* The limit test of checkRateLimit, on the incremented count.
OverLimit(count) == count > RATE_MAX

\* Variant: a rejected check of a key already over the limit is not counted
checkRateLimit_RejectUncounted(m, req, t) ==
    LET key == rateLimitKey(req) IN
    IF key \notin DOMAIN m \/ WindowElapsed(m[key], t)
    THEN [ok |-> TRUE, map |-> (key :> [start |-> t, count |-> 1]) @@ m]
    ELSE LET count == m[key].count + 1 IN
         [ok |-> ~OverLimit(count),
          map |-> IF OverLimit(m[key].count) THEN m ELSE [m EXCEPT ![key].count = count]]

\* Variant: the map swept when a window is started
checkRateLimit_SweepOnReset(m, req, t) ==
    LET key == rateLimitKey(req) IN
    IF key \notin DOMAIN m \/ WindowElapsed(m[key], t)
    THEN [ok |-> TRUE,
          map |-> IF key \in DOMAIN m
                  THEN (key :> [start |-> t, count |-> 1])
                  ELSE (key :> [start |-> t, count |-> 1]) @@ m]
    ELSE LET count == m[key].count + 1 IN
         [ok |-> ~OverLimit(count), map |-> [m EXCEPT ![key].count = count]]

\* Variant: the incremented count is never stored
checkRateLimit_NoStore(m, req, t) ==
    LET key == rateLimitKey(req) IN
    IF key \notin DOMAIN m \/ WindowElapsed(m[key], t)
    THEN [ok |-> TRUE, map |-> (key :> [start |-> t, count |-> 1]) @@ m]
    ELSE LET count == m[key].count + 1 IN
         [ok |-> ~OverLimit(count), map |-> m]

\* Variant: the incremented count is not stored while another handler is suspended
checkRateLimit_LostUpdate(m, req, t) ==
    LET key == rateLimitKey(req) IN
    IF key \notin DOMAIN m \/ WindowElapsed(m[key], t)
    THEN [ok |-> TRUE, map |-> (key :> [start |-> t, count |-> 1]) @@ m]
    ELSE LET count == m[key].count + 1 IN
         [ok |-> ~OverLimit(count),
          map |-> IF pending # <<>> THEN m ELSE [m EXCEPT ![key].count = count]]

\* checkRateLimit(req) at time t on map m: the verdict and the map it leaves.
checkRateLimit(m, req, t) ==
    LET key == rateLimitKey(req) IN
    IF key \notin DOMAIN m \/ WindowElapsed(m[key], t)
    THEN [ok |-> TRUE, map |-> (key :> [start |-> t, count |-> 1]) @@ m]
    ELSE LET count == m[key].count + 1 IN
         [ok |-> ~OverLimit(count), map |-> [m EXCEPT ![key].count = count]]

-----------------------------------------------------------------------------
(* Responses *)

Response(status, ok, error) == [status |-> status, ok |-> ok, error |-> error]

Accepted == Response(200, TRUE, "")
Unauthorized == Response(401, FALSE, "Unauthorized")
RateLimited == Response(429, FALSE, "Rate limited")
BadRequest(error) == Response(400, FALSE, error)
InsertFailed == Response(500, FALSE, "DB insert failed")
ServerError == Response(500, FALSE, "Server error")

-----------------------------------------------------------------------------
(* Field validation.  Each operator yields [error, rec]: the error string  *)
(* of the first failing check and no record, or "" and the record handed   *)
(* to supabase.from("donations").insert.                                   *)

Invalid(error) == [error |-> error, rec |-> <<>>]

DonationRecord(body, amt, eventTime) ==
    [install_id |-> body.installId,
     amount |-> amt,
     charity |-> body.charity,
     host |-> body.host,
     event_time |-> Str(ToISOString(eventTime.n))]

\* Variant: every given timestamp coerced to a number
EventTimeLimiter_CoerceOnly(timestamp, t) ==
    IF ~Falsy(timestamp) THEN DateOfNumber(ToNumber(timestamp)) ELSE Num(t)

\* server.js:86-94
EventTimeLimiter(timestamp, t) ==
    IF timestamp # Undefined /\ timestamp # Null /\ timestamp # Str(<<>>)
    THEN IF TypeOf(timestamp) = "number"
            \/ (TypeOf(timestamp) = "string" /\ AllDigits(timestamp.s))
         THEN DateOfNumber(ToNumber(timestamp))
         ELSE DateOfString(timestamp.s)
    ELSE Num(t)

\* Variant: the upper bound excluded
AmountInvalid_Exclusive(amt) == ~IsFinite(amt) \/ amt.n <= 0 \/ amt.n >= MAX_AMOUNT

\* server.js:76-77 and part_000:38-39
AmountInvalid(amt) == ~IsFinite(amt) \/ amt.n <= 0 \/ amt.n > MAX_AMOUNT

\* Variant: charity optional, as the comment of server.js:81 considers
ValidateLimiter_CharityOptional(body, t) ==
    LET amt == ToNumber(body.amount)
        eventTime == EventTimeLimiter(body.timestamp, t)
    IN
    IF \/ Falsy(body.installId)
       \/ TypeOf(body.installId) # "string"
       \/ Len(body.installId.s) > MAX_INSTALL_ID_LEN
    THEN Invalid("installId required")
    ELSE IF \/ Falsy(body.host)
            \/ TypeOf(body.host) # "string"
            \/ Len(body.host.s) > MAX_HOST_LEN
    THEN Invalid("host required")
    ELSE IF AmountInvalid(amt)
    THEN Invalid("amount invalid")
    ELSE IF eventTime.t = "nan"
    THEN Invalid("timestamp invalid")
    ELSE [error |-> "", rec |-> <<DonationRecord(body, amt, eventTime)>>]

\* server.js:64-105
ValidateLimiter(body, t) ==
    LET amt == ToNumber(body.amount)
        eventTime == EventTimeLimiter(body.timestamp, t)
    IN
    IF \/ Falsy(body.installId)
       \/ TypeOf(body.installId) # "string"
       \/ Len(body.installId.s) > MAX_INSTALL_ID_LEN
    THEN Invalid("installId required")
    ELSE IF \/ Falsy(body.host)
            \/ TypeOf(body.host) # "string"
            \/ Len(body.host.s) > MAX_HOST_LEN
    THEN Invalid("host required")
    ELSE IF AmountInvalid(amt)
    THEN Invalid("amount invalid")
    ELSE IF \/ Falsy(body.charity)
            \/ TypeOf(body.charity) # "string"
            \/ Len(body.charity.s) > MAX_CHARITY_LEN
    THEN Invalid("charity required")
    ELSE IF eventTime.t = "nan"
    THEN Invalid("timestamp invalid")
    ELSE [error |-> "", rec |-> <<DonationRecord(body, amt, eventTime)>>]

\* part_000:49
EventTimeSecret(timestamp, t) ==
    IF ~Falsy(timestamp) THEN DateOfNumber(ToNumber(timestamp)) ELSE Num(t)

\* part_000:32-60
ValidateSecret(body, t) ==
    LET amt == ToNumber(body.amount)
        eventTime == EventTimeSecret(body.timestamp, t)
    IN
    IF Falsy(body.installId) \/ TypeOf(body.installId) # "string"
    THEN Invalid("installId required")
    ELSE IF AmountInvalid(amt)
    THEN Invalid("amount invalid")
    ELSE IF Falsy(body.charity) \/ TypeOf(body.charity) # "string"
    THEN Invalid("charity required")
    ELSE IF Falsy(body.host) \/ TypeOf(body.host) # "string"
    THEN Invalid("host required")
    ELSE IF eventTime.t = "nan"
    THEN Invalid("timestamp invalid")
    ELSE [error |-> "", rec |-> <<DonationRecord(body, amt, eventTime)>>]


-----------------------------------------------------------------------------
(* The handler of POST /events/donation.  A request is [body, ip, secret]: *)
(* the parsed JSON body (a missing field is Undefined), req.ip and the     *)
(* x-api-secret header.                                                    *)

API_SECRET == Str(<<"s", "3", "c">>)

\* What the synchronous segment of a handler leaves: the rate map, the response
\* if it answered (resp), the record if it called insert (rec), and the gates it
\* went through, in order.
Outcome(m, resp, rec, gates) == [map |-> m, resp |-> resp, rec |-> rec, gates |-> gates]

\* Variant: a request without the header let through
HandleSecret_AbsentHeaderPasses(req, m, t) ==
    IF ~Falsy(req.secret) /\ req.secret # API_SECRET
    THEN Outcome(m, <<Unauthorized>>, <<>>, <<"secret">>)
    ELSE LET v == ValidateSecret(req.body, t) IN
         IF v.error # ""
         THEN Outcome(m, <<BadRequest(v.error)>>, <<>>, <<"secret", "validate">>)
         ELSE Outcome(m, <<>>, v.rec, <<"secret", "validate", "persist">>)

\* Variant: a request that fails validation given its count back
HandleLimiter_RefundInvalid(req, m, t) ==
    LET rl == checkRateLimit(m, req, t) IN
    IF ~rl.ok
    THEN Outcome(rl.map, <<RateLimited>>, <<>>, <<"rate">>)
    ELSE LET v == ValidateLimiter(req.body, t) IN
         IF v.error # ""
         THEN Outcome([rl.map EXCEPT ![rateLimitKey(req)].count = @ - 1],
                      <<BadRequest(v.error)>>, <<>>, <<"rate", "validate">>)
         ELSE Outcome(rl.map, <<>>, v.rec, <<"rate", "validate", "persist">>)

\* Variant: the insert issued before the fields are validated
HandleLimiter_InsertFirst(req, m, t) ==
    LET rl == checkRateLimit(m, req, t) IN
    IF ~rl.ok
    THEN Outcome(rl.map, <<RateLimited>>, <<>>, <<"rate">>)
    ELSE LET v == ValidateLimiter(req.body, t) IN
         IF v.error # ""
         THEN Outcome(rl.map, <<BadRequest(v.error)>>,
                      <<DonationRecord(req.body, ToNumber(req.body.amount), Num(t))>>,
                      <<"rate", "persist", "validate">>)
         ELSE Outcome(rl.map, <<>>, v.rec, <<"rate", "persist", "validate">>)

\* Variant: the fields validated before the rate limit is checked
HandleLimiter_ValidateFirst(req, m, t) ==
    LET v == ValidateLimiter(req.body, t) IN
    IF v.error # ""
    THEN Outcome(m, <<BadRequest(v.error)>>, <<>>, <<"validate">>)
    ELSE LET rl == checkRateLimit(m, req, t) IN
         IF ~rl.ok
         THEN Outcome(rl.map, <<RateLimited>>, <<>>, <<"validate", "rate">>)
         ELSE Outcome(rl.map, <<>>, v.rec, <<"validate", "rate", "persist">>)

\* server.js:56-105
HandleLimiter(req, m, t) ==
    LET rl == checkRateLimit(m, req, t) IN
    IF ~rl.ok
    THEN Outcome(rl.map, <<RateLimited>>, <<>>, <<"rate">>)
    ELSE LET v == ValidateLimiter(req.body, t) IN
         IF v.error # ""
         THEN Outcome(rl.map, <<BadRequest(v.error)>>, <<>>, <<"rate", "validate">>)
         ELSE Outcome(rl.map, <<>>, v.rec, <<"rate", "validate", "persist">>)

\* part_000:24-60
HandleSecret(req, m, t) ==
    IF req.secret # API_SECRET
    THEN Outcome(m, <<Unauthorized>>, <<>>, <<"secret">>)
    ELSE LET v == ValidateSecret(req.body, t) IN
         IF v.error # ""
         THEN Outcome(m, <<BadRequest(v.error)>>, <<>>, <<"secret", "validate">>)
         ELSE Outcome(m, <<>>, v.rec, <<"secret", "validate", "persist">>)

Handle(req, m, t) ==
    IF deployment = "limiter" THEN HandleLimiter(req, m, t) ELSE HandleSecret(req, m, t)

\* The message of the error object a failed insert carries
SinkErrorMessage == "duplicate key value violates unique constraint"

\* Variant: the message of the sink's error sent to the caller
SettleLimiter_EchoError(result) ==
    CASE result = "ok" -> Accepted
      [] result = "error" -> Response(500, FALSE, SinkErrorMessage)
      [] result = "throw" -> ServerError

\* The continuation after `await ...insert(...)`: the insert resolved without
\* error ("ok"), resolved with an error ("error"), or rejected ("throw").
\* server.js:107-116
SettleLimiter(result) ==
    CASE result = "ok" -> Accepted
      [] result = "error" -> InsertFailed
      [] result = "throw" -> ServerError

\* part_000:62-68
SettleSecret(result) ==
    CASE result = "ok" -> Accepted
      [] result = "error" -> ServerError
      [] result = "throw" -> ServerError

Settle(result) ==
    IF deployment = "limiter" THEN SettleLimiter(result) ELSE SettleSecret(result)

\* An exchange: the request, its response, the gates the handler went through
\* and the number of insert calls it made.
Exchange(kind, req, resp, gates, inserts) ==
    [kind |-> kind, req |-> req, resp |-> resp, gates |-> gates, inserts |-> inserts]

RemoveAt(seq, i) == SubSeq(seq, 1, i - 1) \o SubSeq(seq, i + 1, Len(seq))

-----------------------------------------------------------------------------
(* What the clients send *)

Chars(n, c) == [i \in 1..n |-> c]

InstallIdAbc == Str(<<"a", "b", "c">>)
HostExample == Str(<<"e", "x", ".", "c", "o", "m">>)
CharityRedCross == Str(<<"r", "e", "d", "c", "r", "o", "s", "s">>)
IsoText == Str(ToISOString(1700))
Garbage == Str(<<"s", "o", "o", "n">>)

Body(installId, host, amount, charity, timestamp) ==
    [installId |-> installId, host |-> host, amount |-> amount,
     charity |-> charity, timestamp |-> timestamp]

ValidBody == Body(InstallIdAbc, HostExample, Num(5), CharityRedCross, Undefined)

\* The payloads of the burst scenario: all from one install
BurstBodies == {ValidBody, [ValidBody EXCEPT !.amount = Undefined]}

InstallIds == {Undefined, Str(<<>>), Num(5), InstallIdAbc, Str(Chars(MAX_INSTALL_ID_LEN + 1, "x"))}
Hosts == {Undefined, HostExample, Str(Chars(MAX_HOST_LEN + 1, "x"))}
Amounts ==
    {Undefined, Num(0), Num(5), Num(MAX_AMOUNT), Num(MAX_AMOUNT + 1), Num(0 - 5), NaN,
     Str(<<"5">>), Str(<<"f", "i", "v", "e">>)}
Charities ==
    {Undefined, CharityRedCross, Str(Chars(MAX_CHARITY_LEN, "x")),
     Str(Chars(MAX_CHARITY_LEN + 1, "x"))}
Timestamps ==
    {Undefined, Null, Str(<<>>), Num(0), Num(1700), Str(<<"1", "7", "0", "0">>),
     IsoText, Garbage}

\* The valid payload with one field replaced by each value of that field
OneFieldBodies ==
    {[ValidBody EXCEPT !.installId = v] : v \in InstallIds}
        \cup {[ValidBody EXCEPT !.host = v] : v \in Hosts}
        \cup {[ValidBody EXCEPT !.amount = v] : v \in Amounts}
        \cup {[ValidBody EXCEPT !.charity = v] : v \in Charities}
        \cup {[ValidBody EXCEPT !.timestamp = v] : v \in Timestamps}

\* Every combination of a good and a bad value of each field
MixedBodies ==
    {Body(i, h, a, c, ts) :
        i \in {InstallIdAbc, Undefined},
        h \in {HostExample, Undefined},
        a \in {Num(5), Num(5000)},
        c \in {CharityRedCross, Undefined},
        ts \in {Undefined, Garbage}}

AllBodies == OneFieldBodies \cup MixedBodies

Addr1 == <<"1", "0", ".", "0", ".", "0", ".", "1">>
Addr2 == <<"1", "0", ".", "0", ".", "0", ".", "2">>
Addrs == {Addr1, Addr2}
Secrets == {Undefined, API_SECRET, Str(<<"n", "o">>)}

\* The readings of Date.now(): around the start of a window, around its end and
\* around the end of the window after it
Instants == {0, 1, RATE_WINDOW_MS, RATE_WINDOW_MS + 1, 2 * RATE_WINDOW_MS + 1}

Requests(B, A, S) == {[body |-> b, ip |-> a, secret |-> s] : b \in B, a \in A, s \in S}

\* One install sends bursts; server.js reads no header, part_000 reads x-api-secret.
BurstRequests ==
    Requests(BurstBodies, {Addr1},
             IF deployment = "limiter" THEN {Undefined} ELSE {Undefined, API_SECRET})

AnyRequests ==
    Requests(AllBodies, Addrs, IF deployment = "limiter" THEN {Undefined} ELSE Secrets)

\* One install, with a valid and an invalid payload, under every header: absent,
\* the secret, another string, a prefix of the secret
HeaderRequests ==
    Requests(BurstBodies, {Addr1}, Secrets \cup {Str(<<"s", "3">>)})

\* One install sends payloads that are valid but for their timestamp, with every
\* timestamp and the amount as a number or as text; part_000 gets the secret
\* with them.
StampRequests ==
    Requests({[ValidBody EXCEPT !.timestamp = v, !.amount = a] :
                  v \in Timestamps, a \in {Num(5), Str(<<"5">>), Num(MAX_AMOUNT)}},
             {Addr1},
             IF deployment = "limiter" THEN {Undefined} ELSE {API_SECRET})

\* An install and, from two addresses, payloads without installId
FrameRequests ==
    Requests({ValidBody, [ValidBody EXCEPT !.installId = Undefined]}, Addrs, {Undefined})

RejectedRequests == Requests({[ValidBody EXCEPT !.amount = Undefined]}, {Addr1}, {Undefined})

-----------------------------------------------------------------------------
(* History.  The windows of a key are counted on their own: the key of a   *)
(* request is "id:" and its installId when that is a non-empty string,     *)
(* "ip:" and its address otherwise; a window begins with the first check   *)
(* of a key and with the first check later than 60000 ms after the         *)
(* window's start.                                                         *)

WindowKey(req) ==
    IF req.body.installId.t = "string" /\ req.body.installId.s # <<>>
    THEN <<"i", "d", ":">> \o req.body.installId.s
    ELSE <<"i", "p", ":">> \o req.ip

\* windows after a check of req at time t that was allowed or not
Counted(req, t, allowed) ==
    LET k == WindowKey(req)
        a == IF allowed THEN 1 ELSE 0
    IN
    IF k \notin DOMAIN windows \/ t - windows[k].start > 60000
    THEN (k :> [start |-> t, n |-> 1, allowed |-> a]) @@ windows
    ELSE [windows EXCEPT ![k].n = @ + 1, ![k].allowed = @ + a]

\* watch after a check of req at time t that was allowed or not
Watched(req, t, allowed) ==
    IF /\ watch # <<>>
       /\ allowed
       /\ watch[1].key = WindowKey(req)
       /\ t - watch[1].from <= 60000
    THEN <<[watch[1] EXCEPT !.n = @ + 1]>>
    ELSE watch

\* tally after the exchange w has been written: the answers 400, 500 and 200
\* given to the key of its request
Tallied(w) ==
    IF w = <<>> \/ w[1].kind # "donation" THEN tally
    ELSE LET k == WindowKey(w[1].req[1])
             old == IF k \in DOMAIN tally THEN tally[k]
                    ELSE [bad |-> 0, failed |-> 0, served |-> 0]
             new == CASE w[1].resp.status = 400 -> [old EXCEPT !.bad = @ + 1]
                      [] w[1].resp.status = 500 -> [old EXCEPT !.failed = @ + 1]
                      [] w[1].resp.status = 200 -> [old EXCEPT !.served = @ + 1]
                      [] OTHER -> old
         IN (k :> new) @@ tally

Checked(out) == "rate" \in {out.gates[i] : i \in 1..Len(out.gates)}
Passed(out) == "validate" \in {out.gates[i] : i \in 1..Len(out.gates)}

-----------------------------------------------------------------------------
(* Actions *)

Init ==
    /\ deployment \in {"limiter", "secret"}
    /\ now = 0
    /\ rateMap = <<>>
    /\ pending = <<>>
    /\ wire = <<>>
    /\ windows = <<>>
    /\ lastCheck = <<>>
    /\ watch = <<>>
    /\ tally = <<>>

\* The install that sends bursts
HotKey == KeyPrefixId \o InstallIdAbc.s

\* POST /events/donation arrives and its handler runs to its response or to the
\* awaited insert.  The clients send the requests of R: no more than hot checks
\* to an entry of the hot key and MaxBurst to any other, and none while more
\* than busy handlers are suspended.
Receive(R, hot, busy) ==
    /\ wire = <<>>
    /\ Len(pending) <= busy
    /\ \E req \in R :
         LET key == rateLimitKey(req)
             out == Handle(req, rateMap, now)
         IN
         /\ key \in DOMAIN out.map =>
                out.map[key].count <= (IF key = HotKey THEN hot ELSE MaxBurst)
         /\ rateMap' = out.map
         /\ IF Checked(out)
            THEN /\ windows' = Counted(req, now, Passed(out))
                 /\ watch' = Watched(req, now, Passed(out))
                 /\ lastCheck' =
                        <<[req |-> req, at |-> now, key |-> key,
                           prev |-> IF key \in DOMAIN rateMap THEN <<rateMap[key]>> ELSE <<>>,
                           entry |-> out.map[key],
                           resp |-> out.resp]>>
            ELSE /\ lastCheck' = <<>>
                 /\ UNCHANGED <<windows, watch>>
         /\ IF out.resp # <<>>
            THEN /\ wire' = <<Exchange("donation", <<req>>, out.resp[1], out.gates, Len(out.rec))>>
                 /\ pending' = pending
            ELSE /\ Len(pending) < MaxInFlight
                 /\ pending' = Append(pending, [req |-> req, rec |-> out.rec, gates |-> out.gates])
                 /\ wire' = wire
    /\ UNCHANGED <<deployment, now>>

Post(R, hot, busy) == Receive(R, hot, busy) /\ UNCHANGED tally

\* The awaited insert of the i-th suspended handler settles and the handler
\* answers.
Resume(result) ==
    /\ wire = <<>>
    /\ \E i \in 1..Len(pending) :
         /\ wire' = <<Exchange("donation", <<pending[i].req>>, Settle(result),
                               pending[i].gates, Len(pending[i].rec))>>
         /\ pending' = RemoveAt(pending, i)
    /\ lastCheck' = <<>>
    /\ UNCHANGED <<deployment, now, rateMap, windows, watch>>

InsertSettles(result) == Resume(result) /\ UNCHANGED tally

InsertOk == InsertSettles("ok")
InsertError == InsertSettles("error")
InsertThrows == InsertSettles("throw")

\* GET /health
Health ==
    /\ wire = <<>>
    /\ wire' = <<Exchange("health", <<>>, Accepted, <<>>, 0)>>
    /\ lastCheck' = <<>>
    /\ UNCHANGED <<deployment, now, rateMap, pending, windows, watch, tally>>

\* The client has the response.
Deliver ==
    /\ wire # <<>>
    /\ wire' = <<>>
    /\ lastCheck' = <<>>
    /\ UNCHANGED <<deployment, now, rateMap, pending, windows, watch, tally>>

\* Time passes.
Tick ==
    /\ wire = <<>>
    /\ \E t \in Instants :
         /\ t > now
         /\ now' = t
    /\ lastCheck' = <<>>
    /\ UNCHANGED <<deployment, rateMap, pending, wire, windows, watch, tally>>

\* An observer starts counting the allowed checks of a key in the interval that
\* begins now.
StartWatch ==
    /\ wire = <<>>
    /\ deployment = "limiter"
    /\ watch = <<>>
    /\ \E k \in DOMAIN rateMap : watch' = <<[key |-> k, from |-> now, n |-> 0]>>
    /\ lastCheck' = <<>>
    /\ UNCHANGED <<deployment, now, rateMap, pending, wire, windows, tally>>

PostBurst == Post(BurstRequests, MaxCount, MaxInFlight)
PostAny == Post(AnyRequests, MaxCount, 0)
PostRejected == Post(RejectedRequests, MaxCount, 0)

\* One install sends bursts of requests while time passes.
Next ==
    \/ PostBurst
    \/ InsertOk
    \/ InsertError
    \/ InsertThrows
    \/ Health
    \/ Deliver
    \/ Tick

Spec == Init /\ [][Next]_vars

\* Every payload from every address, one request at a time: bursts from one
\* install, a few requests for any other key.
NextPipeline ==
    \/ PostAny
    \/ InsertOk
    \/ InsertError
    \/ InsertThrows
    \/ Health
    \/ Deliver

SpecPipeline == Init /\ [][NextPipeline]_vars

\* One install sends bursts of requests that fail validation while time passes
\* and an observer counts the allowed checks of an interval.
NextWindow ==
    \/ PostRejected
    \/ Deliver
    \/ Tick
    \/ StartWatch

InitWindow == Init /\ deployment = "limiter"

SpecWindow == InitWindow /\ [][NextWindow]_vars

PostHeader == Post(HeaderRequests, MaxCount, 0)

\* One install sends one request at a time, with and without the header.
NextHeader ==
    \/ PostHeader
    \/ InsertOk
    \/ InsertError
    \/ InsertThrows
    \/ Deliver

SpecHeader == Init /\ [][NextHeader]_vars

PostStamp == Post(StampRequests, MaxBurst, 0)

\* One install sends timestamps of every form, one request at a time, while time
\* passes.
NextStamp ==
    \/ PostStamp
    \/ InsertOk
    \/ InsertError
    \/ InsertThrows
    \/ Deliver
    \/ Tick

SpecStamp == Init /\ [][NextStamp]_vars

PostFrame == Post(FrameRequests, MaxRepeat, 0)

\* Three keys are checked, one request at a time, while time passes: requests
\* that fail validation, requests whose insert succeeds or fails, and health
\* requests.
NextFrame ==
    \/ PostFrame
    \/ InsertOk
    \/ InsertError
    \/ InsertThrows
    \/ Health
    \/ Deliver
    \/ Tick

SpecFrame == InitWindow /\ [][NextFrame]_vars

PostTally == Receive(BurstRequests, MaxCount, 0) /\ tally' = Tallied(wire')
InsertOkTally == Resume("ok") /\ tally' = Tallied(wire')
InsertErrorTally == Resume("error") /\ tally' = Tallied(wire')

\* One install sends valid and invalid payloads, one request at a time, within
\* one window; the answers given to it are tallied.
NextTally ==
    \/ PostTally
    \/ InsertOkTally
    \/ InsertErrorTally
    \/ Deliver

SpecTally == InitWindow /\ [][NextTally]_vars

PostSerial == Post(BurstRequests, MaxCount, 0)

\* One install sends one request at a time while health requests keep coming.
\* The server answers the health requests it gets, and a response written to
\* the socket reaches the client.  The continuation of a handler runs when the
\* promise of its insert settles (InsertOk, InsertError, InsertThrows); the
\* handlers set no timer and pass no abort signal, so nothing in them makes the
\* promise settle.
NextLive ==
    \/ PostSerial
    \/ InsertOk
    \/ InsertError
    \/ InsertThrows
    \/ Health
    \/ Deliver

SpecLive == Init /\ [][NextLive]_vars /\ WF_vars(Health) /\ WF_vars(Deliver)

-----------------------------------------------------------------------------
(* Properties *)

\* The exchange on the wire is that of a donation request
Answered == wire # <<>> /\ wire[1].kind = "donation"

TooMany == [status |-> 429, ok |-> FALSE, error |-> "Rate limited"]

\* C1: for a fixed key, the 1st to the 60th check of a window are allowed and
\* the 61st is not, and the handler answers it 429 "Rate limited".
C1_WindowCapacity ==
    lastCheck # <<>> =>
        LET c == lastCheck[1]
            w == windows[WindowKey(c.req)]
        IN
        /\ w.n <= 60 => c.resp # <<TooMany>>
        /\ w.n <= 60 /\ c.resp # <<>> => c.resp[1].status # 429
        /\ w.n = 61 => c.resp = <<TooMany>> /\ wire = <<Exchange("donation", <<c.req>>, TooMany, <<"rate">>, 0)>>

\* The 61st check of a window that did not begin at time 0 has been answered 429.
C1_Witness ==
    /\ lastCheck # <<>>
    /\ windows[WindowKey(lastCheck[1].req)].n = 61
    /\ windows[WindowKey(lastCheck[1].req)].start > 0
    /\ Answered /\ wire[1].resp.status = 429

\* C2: a check later than 60000 ms after windowStart replaces the entry with
\* [start = now, count = 1] and is allowed, whatever the count was; a check at
\* exactly 60000 ms does not reset and is counted in the old window.
C2_WindowReset ==
    (lastCheck # <<>> /\ lastCheck[1].prev # <<>>) =>
        LET c == lastCheck[1]
            prev == c.prev[1]
        IN
        /\ c.at - prev.start > 60000 =>
              /\ c.entry = [start |-> c.at, count |-> 1]
              /\ rateMap[c.key] = c.entry
              /\ c.resp # <<TooMany>>
        /\ c.at - prev.start = 60000 =>
              /\ c.entry = [start |-> prev.start, count |-> prev.count + 1]
              /\ rateMap[c.key] = c.entry

\* A key that was being rejected has been checked after its window elapsed.
C2_Witness ==
    /\ lastCheck # <<>>
    /\ lastCheck[1].prev # <<>>
    /\ lastCheck[1].prev[1].count > 60
    /\ lastCheck[1].at - lastCheck[1].prev[1].start > 60000
    /\ lastCheck[1].entry.count = 1

\* A check has been made exactly 60000 ms after the start of its window.
C2_WitnessBoundary ==
    /\ lastCheck # <<>>
    /\ lastCheck[1].prev # <<>>
    /\ lastCheck[1].at - lastCheck[1].prev[1].start = 60000
    /\ lastCheck[1].entry.count > 1

-----------------------------------------------------------------------------
(* The field rules, stated on the payload.  server.js bounds the lengths;  *)
(* part_000 does not.                                                      *)

LengthChecked == deployment = "limiter"

InstallIdOk(v) == v.t = "string" /\ v.s # <<>> /\ (LengthChecked => Len(v.s) <= 200)
HostOk(v) == v.t = "string" /\ v.s # <<>> /\ (LengthChecked => Len(v.s) <= 300)
CharityOk(v) == v.t = "string" /\ v.s # <<>> /\ (LengthChecked => Len(v.s) <= 200)
AmountOk(v) == ToNumber(v).t = "number" /\ 0 < ToNumber(v).n /\ ToNumber(v).n <= 1000
TimestampOk(v) ==
    \/ v.t \in {"undefined", "null", "number"}
    \/ v.t = "string" /\ (v.s = <<>> \/ AllDigits(v.s) \/ DateOfString(v.s).t = "number")

\* The error of the first field, in the order installId, host, amount, charity,
\* timestamp, that breaks its rule; "" when none does.
FirstFieldError(body) ==
    CASE ~InstallIdOk(body.installId) -> "installId required"
      [] ~HostOk(body.host) -> "host required"
      [] ~AmountOk(body.amount) -> "amount invalid"
      [] ~CharityOk(body.charity) -> "charity required"
      [] ~TimestampOk(body.timestamp) -> "timestamp invalid"
      [] OTHER -> ""

\* A required field is absent from the payload
MissingRequired(body) ==
    Undefined \in {body.installId, body.host, body.amount, body.charity}

\* The record is one the rules allow and is made of the payload's fields
RecordOf(rec, body) ==
    /\ rec.install_id = body.installId /\ InstallIdOk(rec.install_id)
    /\ rec.host = body.host /\ HostOk(rec.host)
    /\ rec.charity = body.charity /\ CharityOk(rec.charity)
    /\ rec.amount = ToNumber(body.amount) /\ AmountOk(rec.amount)
    /\ TimestampOk(body.timestamp)
    /\ rec.event_time.t = "string" /\ DateOfString(rec.event_time.s).t = "number"

SecretOk(req) == deployment = "secret" => req.secret = Str(<<"s", "3", "c">>)

GateRank(g) ==
    CASE g = "secret" -> 1 [] g = "rate" -> 2 [] g = "validate" -> 3 [] g = "persist" -> 4

C5_MissingFieldIs400 ==
    (Answered /\ deployment = "limiter" /\ MissingRequired(wire[1].req[1].body)) =>
        /\ wire[1].resp.status = 400
        /\ wire[1].resp.error \in
              {"installId required", "host required", "amount invalid", "charity required"}

\* C5 amended: a payload missing a required field is answered 400 with the error
\* of its first failing field when its key is within the limit, and 429 when the
\* key is over the limit.
C5_MissingFieldIs400UnlessLimited ==
    (Answered /\ deployment = "limiter" /\ MissingRequired(wire[1].req[1].body)) =>
        LET x == wire[1] IN
        /\ lastCheck # <<>> /\ lastCheck[1].req = x.req[1]
        /\ IF windows[WindowKey(x.req[1])].n > 60
           THEN x.resp = TooMany
           ELSE /\ x.resp.status = 400
                /\ x.resp.error = FirstFieldError(x.req[1].body)
                /\ x.resp.error \in
                      {"installId required", "host required", "amount invalid",
                       "charity required"}

\* A payload without host, from the install over its limit, has been answered 429.
C5_Witness ==
    /\ Answered
    /\ deployment = "limiter"
    /\ wire[1].req[1].body.host = Undefined
    /\ wire[1].resp.status = 429

\* C6: a 400 names the first field, in the order installId, host, amount,
\* charity, timestamp, that is invalid.
C6_FirstInvalidReported ==
    (Answered /\ wire[1].resp.status = 400) =>
        wire[1].resp.error = FirstFieldError(wire[1].req[1].body)

\* C7: the key of a request is "id:" and its installId exactly when installId is
\* a non-empty string and "ip:" and the caller's address otherwise, and requests
\* are counted in the same entry iff their keys are equal.
C7_KeyDerivation ==
    /\ lastCheck # <<>> =>
          LET c == lastCheck[1]
              id == c.req.body.installId
          IN
          /\ (id.t = "string" /\ Len(id.s) > 0) => c.key = <<"i", "d", ":">> \o id.s
          /\ ~(id.t = "string" /\ Len(id.s) > 0) => c.key = <<"i", "p", ":">> \o c.req.ip
          /\ rateMap[c.key] = c.entry
    /\ deployment = "limiter" =>
          /\ DOMAIN rateMap = DOMAIN windows
          /\ \A k \in DOMAIN rateMap : rateMap[k].count = windows[k].n

\* Requests with a numeric installId from two addresses and requests of an
\* install are counted in three entries.
C7_Witness ==
    /\ lastCheck # <<>>
    /\ lastCheck[1].req.body.installId = Num(5)
    /\ Cardinality(DOMAIN rateMap) >= 3
    /\ \E k \in DOMAIN rateMap : rateMap[k].count >= 2

\* The payload reaches the amount check of the running deployment
ReachesAmount(body) ==
    /\ InstallIdOk(body.installId)
    /\ deployment = "limiter" => HostOk(body.host)

\* C8: the amount check passes iff the coerced amount is finite, above 0 and at
\* most 1000: 0, 1001, NaN and -5 are answered 400 "amount invalid", 1000 passes.
C8_AmountRange ==
    /\ (Answered /\ wire[1].resp.status \in {400, 200, 500}
            /\ ReachesAmount(wire[1].req[1].body)) =>
          (wire[1].resp = [status |-> 400, ok |-> FALSE, error |-> "amount invalid"]
              <=> ~AmountOk(wire[1].req[1].body.amount))
    /\ \A i \in 1..Len(pending) : AmountOk(pending[i].req.body.amount)
    /\ \A v \in {Num(0), Num(1001), NaN, Num(0 - 5)} :
          (Answered /\ wire[1].resp.status \in {400, 200, 500}
               /\ ReachesAmount(wire[1].req[1].body) /\ wire[1].req[1].body.amount = v) =>
             wire[1].resp.error = "amount invalid"

\* An amount of 1000 has passed the amount check and gone to the insert.
C8_Witness ==
    \E i \in 1..Len(pending) :
        /\ pending[i].req.body.amount = Num(1000)
        /\ pending[i].rec[1].amount = Num(1000)

\* C9 as stated: in every interval of 60000 ms, whether or not it begins at a
\* windowStart, at most 60 checks of a key are allowed.
C9_SlidingWindow == watch # <<>> => watch[1].n <= 60

\* C9 amended: the limiter is fixed-window.  At most 60 checks of a key are
\* allowed in one window of the key; an interval of 60000 ms that begins inside
\* a window and ends in the next holds up to 119 allowed checks.
C9_FixedWindow ==
    /\ \A k \in DOMAIN windows : windows[k].allowed <= 60
    /\ watch # <<>> => watch[1].n <= 119

\* 119 checks of a key have been allowed within one interval of 60000 ms.
C9_Witness ==
    /\ watch # <<>>
    /\ watch[1].n = 119
    /\ now - watch[1].from <= 60000

\* C10: with handlers suspended at the insert in any number and order, each
\* check-and-update is one step: the entry counts every check made for the key
\* in its window, and at most 60 of them pass the gate.
C10_AtomicCheck ==
    deployment = "limiter" =>
        /\ DOMAIN rateMap = DOMAIN windows
        /\ \A k \in DOMAIN rateMap :
              /\ rateMap[k] = [start |-> windows[k].start, count |-> windows[k].n]
              /\ windows[k].allowed <= 60
              /\ windows[k].allowed = IF windows[k].n <= 60 THEN windows[k].n ELSE 60

\* With two handlers of the same key suspended at the insert, a further request
\* of the key has been checked and rejected.
C10_Witness ==
    /\ Len(pending) = 2
    /\ WindowKey(pending[1].req) = WindowKey(pending[2].req)
    /\ lastCheck # <<>>
    /\ WindowKey(lastCheck[1].req) = WindowKey(pending[1].req)
    /\ lastCheck[1].resp = <<TooMany>>


-----------------------------------------------------------------------------
\* C11: no operation blocks indefinitely: a request whose handler is suspended
\* at the insert is eventually answered with the response of the persistence
\* gate (200 or 500).
C11_EventuallyAnswered ==
    (pending # <<>>) ~>
        (Answered /\ wire[1].gates[Len(wire[1].gates)] = "persist"
            /\ wire[1].resp.status \in {200, 500})

\* C12: when the insert of a request fails (resolves with an error, or rejects),
\* the request is answered 500 with the error "DB insert failed" or "Server
\* error" and nothing of the sink's error; the insert was called once for it and
\* the request is not queued for another call; the rate map and the other
\* suspended handlers are left as they were, so later requests are served.
C12_FailureIsTerminal ==
    [][(InsertError \/ InsertThrows) =>
          (/\ wire' # <<>>
           /\ wire'[1].kind = "donation"
           /\ wire'[1].resp \in
                 {[status |-> 500, ok |-> FALSE, error |-> "DB insert failed"],
                  [status |-> 500, ok |-> FALSE, error |-> "Server error"]}
           /\ wire'[1].inserts = 1
           /\ Len(pending') = Len(pending) - 1
           /\ \E i \in 1..Len(pending) :
                 /\ pending[i].req = wire'[1].req[1]
                 /\ \A j \in 1..Len(pending') :
                       pending'[j] = pending[IF j < i THEN j ELSE j + 1]
           /\ rateMap' = rateMap)]_vars

\* An insert has failed and its request has been answered "DB insert failed"
\* while another handler is still suspended at its own insert.
C12_Witness ==
    /\ Answered
    /\ wire[1].resp = [status |-> 500, ok |-> FALSE, error |-> "DB insert failed"]
    /\ wire[1].inserts = 1
    /\ pending # <<>>

\* C13: a donation request is answered 401 "Unauthorized" exactly when the
\* deployment requires a shared secret and the x-api-secret header is not equal
\* to it; the deployment without a secret answers no request 401; a 401 changes
\* no rate-limit entry and makes no insert call.
C13_UnauthorizedIffSecretMismatch ==
    [][(wire' # <<>> /\ wire' # wire /\ wire'[1].kind = "donation") =>
          LET x == wire'[1]
              denied == x.resp = [status |-> 401, ok |-> FALSE, error |-> "Unauthorized"]
          IN
          /\ denied <=> (deployment = "secret" /\ x.req[1].secret # Str(<<"s", "3", "c">>))
          /\ x.resp.status = 401 => denied
          /\ deployment = "limiter" => x.resp.status # 401
          /\ denied =>
                /\ rateMap' = rateMap
                /\ pending' = pending
                /\ x.inserts = 0]_vars

\* A valid payload sent with a prefix of the secret has been answered 401.
C13_Witness ==
    /\ Answered
    /\ deployment = "secret"
    /\ wire[1].req[1].secret = Str(<<"s", "3">>)
    /\ wire[1].req[1].body = ValidBody
    /\ wire[1].resp.status = 401

\* The deployment without a secret has accepted a request that carries a header
\* other than the secret.
C13_WitnessNoSecret ==
    /\ Answered
    /\ deployment = "limiter"
    /\ wire[1].req[1].secret = Str(<<"n", "o">>)
    /\ wire[1].resp.status = 200

\* The event time of a timestamp received at time t: the receipt time when the
\* timestamp is absent, null or empty; epoch milliseconds when it is a number or
\* a string of decimal digits; the parsed date for any other string.
ClaimedEventTime(ts, t) ==
    IF ts.t \in {"undefined", "null"} \/ (ts.t = "string" /\ ts.s = <<>>) THEN Num(t)
    ELSE IF ts.t = "number" THEN ts
    ELSE IF ts.t = "string" /\ AllDigits(ts.s) THEN Num(DecimalValue(ts.s))
    ELSE IF ts.t = "string" THEN DateOfString(ts.s)
    ELSE NaN

OtherFieldsOk(body) ==
    /\ InstallIdOk(body.installId)
    /\ HostOk(body.host)
    /\ AmountOk(body.amount)
    /\ CharityOk(body.charity)

\* C14: for a request whose other four fields are valid, the record handed to
\* the insert carries the event time of its timestamp (receipt time, epoch
\* milliseconds, or parsed date), and a timestamp with no valid time is answered
\* 400 "timestamp invalid" with no insert call; no other timestamp is.
C14_TimestampHandling ==
    [][/\ Len(pending') > Len(pending) =>
             LET e == pending'[Len(pending')]
                 claimed == ClaimedEventTime(e.req.body.timestamp, now)
             IN
             /\ claimed.t = "number"
             /\ DateOfString(e.rec[1].event_time.s) = claimed
       /\ (/\ wire' # <<>> /\ wire' # wire
           /\ wire'[1].kind = "donation"
           /\ wire'[1].resp.status = 400
           /\ OtherFieldsOk(wire'[1].req[1].body)) =>
             /\ wire'[1].resp.error = "timestamp invalid"
             /\ ClaimedEventTime(wire'[1].req[1].body.timestamp, now).t = "nan"
             /\ wire'[1].inserts = 0
             /\ pending' = pending]_vars

\* The payload that carries the values of a record handed to the insert
PayloadOf(rec) == Body(rec.install_id, rec.host, rec.amount, rec.charity, rec.event_time)

\* C15: validation is idempotent.  The values of a record that server.js handed
\* to the insert, validated again at any later time, pass and give the same
\* record; the event time is the same instant after the round trip through
\* its ISO-8601 text.
C15_ValidationIdempotent ==
    deployment = "limiter" =>
        \A i \in 1..Len(pending) :
            LET rec == pending[i].rec[1]
                again == ValidateLimiter(PayloadOf(rec), now)
            IN
            /\ again.error = ""
            /\ again.rec = <<rec>>
            /\ DateOfString(rec.event_time.s).t = "number"
            /\ DateOfString(again.rec[1].event_time.s) = DateOfString(rec.event_time.s)

\* A record made from an amount given as text and a timestamp given as digits
\* is waiting at the insert at a time later than its event time.
C15_Witness ==
    /\ deployment = "limiter"
    /\ now > 1700
    /\ \E i \in 1..Len(pending) :
          /\ pending[i].req.body.amount = Str(<<"5">>)
          /\ pending[i].req.body.timestamp = Str(<<"1", "7", "0", "0">>)
          /\ pending[i].rec[1].amount = Num(5)
          /\ pending[i].rec[1].event_time = Str(ToISOString(1700))

\* C16: once a check of a key has been rejected, every further check of the key
\* in the same window (no later than 60000 ms after its start) is rejected: a
\* check is allowed only in a window that has had no rejection, and a rejection
\* leaves the window's start as it was.
C16_RejectedStaysRejected ==
    lastCheck # <<>> =>
        LET c == lastCheck[1]
            w == windows[WindowKey(c.req)]
        IN
        /\ c.resp # <<TooMany>> => w.n = w.allowed
        /\ (c.prev # <<>> /\ c.at - c.prev[1].start <= 60000 /\ w.n - w.allowed >= 2) =>
              c.resp = <<TooMany>> /\ w.start = c.prev[1].start

\* A key has been rejected a second time in one window, at a later time than
\* the window's start.
C16_Witness ==
    /\ lastCheck # <<>>
    /\ lastCheck[1].resp = <<TooMany>>
    /\ windows[WindowKey(lastCheck[1].req)].n - windows[WindowKey(lastCheck[1].req)].allowed = 2
    /\ lastCheck[1].at > windows[WindowKey(lastCheck[1].req)].start

\* C17 as stated: every entry has 1 <= count <= 61; after the first rejection
\* of a window, further rejected checks leave the count as it was.
C17_CountAtMost61 ==
    \A k \in DOMAIN rateMap : 1 <= rateMap[k].count /\ rateMap[k].count <= 61

\* C17 amended: every entry has count >= 1, and every check that does not start
\* a window, rejected or not, adds one to the count, so the count of a window
\* with more than one rejection is above 61.
C17_EveryCheckCounted ==
    /\ \A k \in DOMAIN rateMap : rateMap[k].count >= 1
    /\ (lastCheck # <<>> /\ lastCheck[1].prev # <<>>) =>
          LET c == lastCheck[1]
              prev == c.prev[1]
          IN
          /\ c.at - prev.start <= 60000 => c.entry.count = prev.count + 1
          /\ c.resp = <<TooMany>> =>
                /\ c.entry.count = prev.count + 1
                /\ c.entry.count >= 61
                /\ rateMap[c.key].count = c.entry.count

\* The second rejected check of a window has left the count at 62.
C17_Witness ==
    /\ lastCheck # <<>>
    /\ lastCheck[1].resp = <<TooMany>>
    /\ lastCheck[1].prev # <<>>
    /\ lastCheck[1].prev[1].count = 61
    /\ rateMap[lastCheck[1].key].count = 62

\* C18: a check of key k changes the entry of k only: the entries of the other
\* keys stay as they were, the map has one entry for each key checked so far,
\* and no step (a check, a health request, a failed validation, a failed
\* insert, the passing of time) removes or changes an entry otherwise.
C18_CheckFrame ==
    [][/\ DOMAIN rateMap \subseteq DOMAIN rateMap'
       /\ DOMAIN rateMap' = DOMAIN windows'
       /\ lastCheck' = <<>> => rateMap' = rateMap
       /\ lastCheck' # <<>> =>
             LET k == WindowKey(lastCheck'[1].req) IN
             /\ DOMAIN rateMap' = DOMAIN rateMap \cup {k}
             /\ \A j \in DOMAIN rateMap \ {k} : rateMap'[j] = rateMap[j]]_vars

\* The elapsed entry of one key has been replaced while the map holds the
\* entries of two other keys, one of them counted more than once.
C18_Witness ==
    /\ lastCheck # <<>>
    /\ lastCheck[1].prev # <<>>
    /\ lastCheck[1].at - lastCheck[1].prev[1].start > 60000
    /\ Cardinality(DOMAIN rateMap) = 3
    /\ \E j \in DOMAIN rateMap \ {lastCheck[1].key} : rateMap[j].count > 1

\* The handlers of key k suspended at the insert
InFlight(k) == Cardinality({i \in 1..Len(pending) : WindowKey(pending[i].req) = k})

\* C19: every request is counted against its key whatever its outcome: the
\* count of an entry is the number of requests of the key in its window, those
\* answered 429, 400 and 500 included; the 200 responses of a key in a window
\* are at most 60, and fewer than the valid requests sent when inserts failed.
C19_CountedWhateverOutcome ==
    /\ DOMAIN tally \subseteq DOMAIN rateMap
    /\ \A k \in DOMAIN rateMap :
          LET rejected == IF rateMap[k].count > 60 THEN rateMap[k].count - 60 ELSE 0
              given == IF k \in DOMAIN tally THEN tally[k]
                       ELSE [bad |-> 0, failed |-> 0, served |-> 0]
          IN
          /\ rateMap[k].count =
                rejected + given.bad + given.failed + given.served + InFlight(k)
          /\ rateMap[k].count = windows[k].n
          /\ given.served <= 60
          /\ given.served + given.bad + given.failed + InFlight(k) <= 60

\* The first 429 of a window has been given to a valid request when fewer than
\* 60 requests of the key had been answered 200: some had been answered 400 and
\* some 500.
C19_Witness ==
    /\ Answered
    /\ wire[1].resp.status = 429
    /\ wire[1].req[1].body = ValidBody
    /\ rateMap[WindowKey(wire[1].req[1])].count = 61
    /\ tally[WindowKey(wire[1].req[1])].served < 60
    /\ tally[WindowKey(wire[1].req[1])].bad > 0
    /\ tally[WindowKey(wire[1].req[1])].failed > 0

=============================================================================
